---- MODULE Spec2Model ----
(***************************************************************************)
(* Model of the parking query engine of                                    *)
(* melbourne-parking-website/backend/api/parking_routes.py:                *)
(* GET /current (get_current_parking_status), GET /streets                 *)
(* (get_streets_list) and GET /nearby (find_nearby_parking) over the two   *)
(* tables parking_bays and parking_status_current.                         *)
(*                                                                         *)
(* Units.  Coordinates are integers in 1e-5 degree.  Radii are metres.     *)
(* calculate_distance returns centimetres; the 'distance' field of a       *)
(* /nearby row is in decimetres (round(distance, 1)).                      *)
(*                                                                         *)
(* A handler is split into one step per database query, so that the        *)
(* position of the handler between two queries is a state of the model.    *)
(* A query without ORDER BY returns its rows in any order, and a LIMIT n   *)
(* without ORDER BY returns any n of the matching rows.                    *)
(***************************************************************************)
EXTENDS Integers, Sequences, FiniteSets, TLC

\* ------------------------------------------------------------------ bounds
MaxBays == 4
MaxLimit == 4

\* --------------------------------------------------------------- constants
DefaultLimit == 1500
MinBaysPerStreet == 2
MaxStreets == 50
NearbyLimit == 20
DefaultRadius == 500
MetresPerDegree == 111000

NULL == "NULL"

Min(a, b) == IF a <= b THEN a ELSE b
Max(a, b) == IF a >= b THEN a ELSE b

\* Sequences of n distinct elements of S: the possible results of a query
\* that matches S, has LIMIT n (n <= |S|) and no ORDER BY.
AnyRows(S, n) == {f \in [1..n -> S] : \A i, j \in 1..n : f[i] = f[j] => i = j}

\* The possible results of a query that matches S and has no ORDER BY.
AllRows(S) == AnyRows(S, Cardinality(S))

\* The orders in which the rows of S can come out when they are put in
\* ascending order of key and nothing else: rows of equal key come in any
\* order (the order of an unordered query, kept by a stable sort, or the
\* order an ORDER BY key alone leaves open).
RECURSIVE SortedRows(_, _)
SortedRows(S, key) ==
  IF S = {} THEN {<<>>}
  ELSE LET firsts == {x \in S : \A y \in S : key[x] <= key[y]}
       IN UNION {{<<x>> \o rest : rest \in SortedRows(S \ {x}, key)} : x \in firsts}

\* ------------------------------------------------------------------ tables
BayIds == 1..MaxBays
StreetNames == {"A St", "B St"}

\* The status texts a bay's current-status row may carry: Unoccupied, or one
\* of the other texts (which one depends on the bay).
OtherStatus(id) ==
  CASE id % 3 = 1 -> "Occupied"
    [] id % 3 = 2 -> "Unknown"
    [] OTHER      -> "OutOfService"

Statuses(id) == {"Unoccupied", OtherStatus(id)}

\* Position of bay id (1e-5 degree).  Bays 1, 2 and 3 lie 100 m, 600 m and
\* 50 m north of the point (-37.81360, 144.96310); bay 4 lies just east of
\* the antimeridian.
Latitude(id) ==
  CASE id = 1 -> -3781270
    [] id = 2 -> -3780820
    [] id = 3 -> -3781316
    [] id = 4 -> -3781360
    [] OTHER  -> -3781405

Longitude(id) ==
  CASE id = 4 -> -17999990
    [] OTHER  -> 14496310

ZoneNumber(id) == 7000 + id

VARIABLES parking_bays, parking_status_current,
          pc, args, limit, street_names, street_idx, bays_per_street,
          remaining_limit, results, streets_data, response, previous,
          parking_status_history, victoria_population_growth,
          melbourne_population_history, tables,
          bays_csv, sensors_csv,
          import_pc, imports_run, import_result, imported, skipped_count, now

\* The tables the endpoints do not read.
other_tables == <<parking_status_history, victoria_population_growth,
                  melbourne_population_history, tables>>
stores == <<parking_bays, parking_status_current, other_tables>>
locals == <<limit, street_names, street_idx, bays_per_street,
            remaining_limit, results, streets_data>>
\* The CSV files and the state of the import script.
importing == <<bays_csv, sensors_csv, import_pc, imports_run,
               import_result, imported, skipped_count, now>>
vars == <<parking_bays, parking_status_current, pc, args, limit,
          street_names, street_idx, bays_per_street, remaining_limit,
          results, streets_data, response, previous, other_tables, importing>>

\* ParkingBay JOIN ParkingStatusCurrent ON kerbside_id: the ids of the rows.
Joined == DOMAIN parking_bays \cap DOMAIN parking_status_current

\* The query of a /nearby request: lat, lng and radius are <<>> when the
\* parameter is absent and <<text>> when it is given.
NoQuery == [lat |-> <<>>, lng |-> <<>>, radius |-> <<>>]

\* query is the query string of /nearby; lat, lng and radius are the
\* handler's locals of these names (0 until they are assigned).
NoArgs == [endpoint |-> "none", limit |-> <<>>, bounds |-> <<>>,
           query |-> NoQuery, lat |-> 0, lng |-> 0, radius |-> 0]
NoResponse == [code |-> 0]

\* What a client that repeats a request remembers of the one before.
NoPrevious == [args |-> NoArgs, response |-> NoResponse]

InitLocals ==
  /\ pc = "idle"
  /\ args = NoArgs
  /\ limit = 0
  /\ street_names = <<>>
  /\ street_idx = 0
  /\ bays_per_street = 0
  /\ remaining_limit = 0
  /\ results = <<>>
  /\ streets_data = <<>>
  /\ response = NoResponse
  /\ previous = NoPrevious

\* A latitude or longitude that is NULL in the table (the columns of
\* import_to_railway.py are nullable).  It stands outside every range: a
\* comparison with NULL is not true in SQL, so no between filter keeps the
\* row.  float(None) raises TypeError.
NullCoordinate == 99999999

\* ------------------------------------------------------- request inputs
LimitArgs == {<<>>} \cup {<<n>> : n \in -1..MaxLimit}

\* The limits of the /current requests served next to /streets and /nearby.
QueryLimits == {<<>>, <<2>>}

\* float(text): the texts that parse, with their values in 1e-5 degree.
\* Any other text raises ValueError.
FloatValue ==
  ("-37.8150" :> -3781500) @@ ("-37.8120" :> -3781200) @@
  ("144.9620" :> 14496200) @@ ("144.9640" :> 14496400) @@
  ("-37.81360" :> -3781360) @@ ("-37.81293" :> -3781293) @@
  ("-37.81670" :> -3781670) @@ ("144.96310" :> 14496310) @@
  ("144.95810" :> 14495810) @@ ("179.99990" :> 17999990) @@
  ("95.0" :> 9500000) @@ ("200.0" :> 20000000)

\* float(text) for the texts of a radius, with their values in metres.
MetresValue == ("100" :> 100) @@ ("1000" :> 1000) @@ ("0" :> 0) @@ ("-100" :> -100)

\* bounds.split(','): the parts of the bounds text.  <<>> stands for a
\* request without bounds (None or the empty text, both falsy).
NoBounds == <<>>
BoxBounds == <<"-37.8150", "144.9620", "-37.8120", "144.9640">>
SwappedBounds == <<"-37.8120", "144.9640", "-37.8150", "144.9620">>
NonNumericBounds == <<"-37.8150", "abc", "-37.8120", "144.9640">>
ShortBounds == <<"-37.8150", "144.9620", "-37.8120">>
LongBounds == <<"-37.8150", "144.9620", "-37.8120", "144.9640", "144.9640">>
BoundsArgs ==
  {NoBounds, BoxBounds, SwappedBounds, NonNumericBounds, ShortBounds, LongBounds}

\* The (lat, lng) texts of the /nearby requests with a center in range.
Centers == {<<"-37.81360", "144.96310">>, <<"-37.81293", "144.96310">>,
            <<"-37.81670", "144.95810">>, <<"-37.81360", "179.99990">>}

\* The radius parameter of these requests: absent, 100 or 1000.
Radii == {<<>>, <<"100">>, <<"1000">>}

\* The /nearby requests with numeric parameters, a center in range and a
\* positive radius.
NearbyQueries ==
  {[lat |-> <<c[1]>>, lng |-> <<c[2]>>, radius |-> r] : c \in Centers, r \in Radii}

\* /nearby requests with a parameter that is missing, not a number, out
\* of range (latitude 95, longitude 200) or not positive (radius 0, -100).
InvalidQueries ==
  {[lat |-> <<>>, lng |-> <<"144.96310">>, radius |-> <<>>],
   [lat |-> <<"-37.81360">>, lng |-> <<>>, radius |-> <<"100">>],
   [lat |-> <<"abc">>, lng |-> <<"144.96310">>, radius |-> <<"100">>],
   [lat |-> <<"-37.81360">>, lng |-> <<"abc">>, radius |-> <<>>],
   [lat |-> <<"-37.81360">>, lng |-> <<"144.96310">>, radius |-> <<"abc">>],
   [lat |-> <<"95.0">>, lng |-> <<"144.96310">>, radius |-> <<"100">>],
   [lat |-> <<"-37.81360">>, lng |-> <<"200.0">>, radius |-> <<"100">>],
   [lat |-> <<"-37.81360">>, lng |-> <<"144.96310">>, radius |-> <<"0">>],
   [lat |-> <<"-37.81360">>, lng |-> <<"144.96310">>, radius |-> <<"-100">>]}

ErrorResponse_PartialSuccess(e) == [code |-> 200, success |-> TRUE, data |-> results]

\* The error response of the handlers' "except Exception as e".
ErrorResponse(e) == [code |-> 500, success |-> FALSE, error |-> e]

\* ------------------------------------------------------------- /current
\* lat1, lng1, lat2, lng2 = map(float, bounds.split(',')) inside
\* "if bounds: try ... except (ValueError, TypeError): pass".
\* <<>> when no filter is applied.
ParseBounds_FirstFour(bounds) ==
  IF bounds = <<>> THEN <<>>
  ELSE IF Len(bounds) >= 4 /\ \A i \in 1..4 : bounds[i] \in DOMAIN FloatValue
       THEN [i \in 1..4 |-> FloatValue[bounds[i]]]
       ELSE <<>>

ParseBounds(bounds) ==
  IF bounds = <<>> THEN <<>>
  ELSE IF Len(bounds) = 4 /\ \A i \in 1..4 : bounds[i] \in DOMAIN FloatValue
       THEN [i \in 1..4 |-> FloatValue[bounds[i]]]
       ELSE <<>>

\* The filter with the corners taken as given: lat1 and lng1 the lower
\* bounds, lat2 and lng2 the upper ones.
InBounds_CornersAsGiven(bounds, id) ==
  LET b == ParseBounds(bounds) IN
    b # <<>> =>
      /\ parking_bays[id].latitude >= b[1]
      /\ parking_bays[id].latitude <= b[3]
      /\ parking_bays[id].longitude >= b[2]
      /\ parking_bays[id].longitude <= b[4]

\* latitude.between(min(lat1, lat2), max(lat1, lat2)) and the same for the
\* longitude, when the bounds parse.
InBounds(bounds, id) ==
  LET b == ParseBounds(bounds) IN
    b # <<>> =>
      /\ parking_bays[id].latitude >= Min(b[1], b[3])
      /\ parking_bays[id].latitude <= Max(b[1], b[3])
      /\ parking_bays[id].longitude >= Min(b[2], b[4])
      /\ parking_bays[id].longitude <= Max(b[2], b[4])

\* streets_query ... .distinct(): the distinct street names of the view.
StreetsQuery(bounds) ==
  {parking_bays[id].road_segment_description :
     id \in {j \in Joined :
               /\ parking_bays[j].road_segment_description # NULL
               /\ InBounds(bounds, j)}}

\* street_query before .limit(): the rows of one street.
StreetQuery(street_name, bounds) ==
  {id \in Joined :
     /\ parking_bays[id].road_segment_description = street_name
     /\ InBounds(bounds, id)}

LimitOrDefault(l) == IF l = <<>> THEN DefaultLimit ELSE l[1]

BaysPerStreet_NoMinimum(lim, n) ==
  IF n > 0 THEN lim \div n ELSE lim

BaysPerStreet(lim, n) ==
  IF n > 0 THEN Max(MinBaysPerStreet, lim \div n) ELSE lim

CurrentStreetLimit_NoQuota(bps, remaining) == remaining

CurrentStreetLimit_NoBudget(bps, remaining) == bps

CurrentStreetLimit(bps, remaining) == Min(bps, remaining)

\* The dict appended to results for one (bay, status) row.
CurrentRow(id) ==
  [kerbside_id |-> id,
   latitude |-> parking_bays[id].latitude,
   longitude |-> parking_bays[id].longitude,
   status |-> parking_status_current[id].status_description,
   road_segment |-> parking_bays[id].road_segment_description,
   zone_number |-> parking_status_current[id].zone_number]

CurrentStartWith(limits, boundss) ==
  /\ pc = "idle"
  /\ \E l \in limits, b \in boundss :
       /\ args' = [NoArgs EXCEPT !.endpoint = "current", !.limit = l, !.bounds = b]
       /\ limit' = LimitOrDefault(l)
       /\ street_names' \in AllRows(StreetsQuery(b))
       /\ bays_per_street' = BaysPerStreet(limit', Len(street_names'))
       /\ remaining_limit' = limit'
  /\ results' = <<>>
  /\ street_idx' = 0
  /\ pc' = "current_loop"
  /\ UNCHANGED <<stores, importing, streets_data, response, previous>>

CurrentStreet_NoBreak ==
  /\ pc = "current_loop"
  /\ street_idx < Len(street_names)
  /\ LET street_name == street_names[street_idx + 1]
         current_street_limit == Max(0, CurrentStreetLimit(bays_per_street, remaining_limit))
         matching == StreetQuery(street_name, args.bounds)
     IN \E street_bays \in AnyRows(matching, Min(current_street_limit, Cardinality(matching))) :
          /\ results' = results \o [i \in 1..Len(street_bays) |-> CurrentRow(street_bays[i])]
          /\ remaining_limit' = remaining_limit - Len(street_bays)
  /\ street_idx' = street_idx + 1
  /\ UNCHANGED <<stores, importing, pc, args, limit, street_names, bays_per_street,
                 streets_data, response, previous>>

\* One turn of the loop over street_names.  float(bay.latitude) and
\* float(bay.longitude) of lines 108-109 raise TypeError for a NULL
\* coordinate; nothing catches it before the handler's except clause.
CurrentStreet ==
  /\ pc = "current_loop"
  /\ street_idx < Len(street_names)
  /\ remaining_limit > 0
  /\ LET street_name == street_names[street_idx + 1]
         current_street_limit == CurrentStreetLimit(bays_per_street, remaining_limit)
         matching == StreetQuery(street_name, args.bounds)
     IN \E street_bays \in AnyRows(matching, Min(current_street_limit, Cardinality(matching))) :
          IF \A i \in 1..Len(street_bays) :
               /\ parking_bays[street_bays[i]].latitude # NullCoordinate
               /\ parking_bays[street_bays[i]].longitude # NullCoordinate
          THEN /\ results' = results \o [i \in 1..Len(street_bays) |->
                                          CurrentRow(street_bays[i])]
               /\ remaining_limit' = remaining_limit - Len(street_bays)
               /\ street_idx' = street_idx + 1
               /\ UNCHANGED <<pc, response>>
          ELSE /\ response' = ErrorResponse("TypeError")
               /\ pc' = "done"
               /\ UNCHANGED <<results, remaining_limit, street_idx>>
  /\ UNCHANGED <<stores, importing, args, limit, street_names, bays_per_street,
                 streets_data, previous>>

CurrentReturn_VisitedStreets ==
  /\ pc = "current_loop"
  /\ street_idx = Len(street_names) \/ remaining_limit <= 0
  /\ response' = [code |-> 200,
                  success |-> TRUE,
                  count |-> Len(results),
                  data |-> results,
                  distribution_info |->
                    [total_streets |-> street_idx,
                     target_bays_per_street |-> bays_per_street,
                     actual_bays_returned |-> Len(results)]]
  /\ pc' = "done"
  /\ UNCHANGED <<stores, importing, args, locals, previous>>

CurrentReturn_EmptyIsError ==
  /\ pc = "current_loop"
  /\ street_idx = Len(street_names) \/ remaining_limit <= 0
  /\ response' = IF results = <<>>
                 THEN [code |-> 404, success |-> FALSE, error |-> "no bays"]
                 ELSE [code |-> 200,
                       success |-> TRUE,
                       count |-> Len(results),
                       data |-> results,
                       distribution_info |->
                         [total_streets |-> Len(street_names),
                          target_bays_per_street |-> bays_per_street,
                          actual_bays_returned |-> Len(results)]]
  /\ pc' = "done"
  /\ UNCHANGED <<stores, importing, args, locals, previous>>

CurrentReturn ==
  /\ pc = "current_loop"
  /\ street_idx = Len(street_names) \/ remaining_limit <= 0
  /\ response' = [code |-> 200,
                  success |-> TRUE,
                  count |-> Len(results),
                  data |-> results,
                  distribution_info |->
                    [total_streets |-> Len(street_names),
                     target_bays_per_street |-> bays_per_street,
                     actual_bays_returned |-> Len(results)]]
  /\ pc' = "done"
  /\ UNCHANGED <<stores, importing, args, locals, previous>>

CurrentStart == CurrentStartWith(LimitArgs, BoundsArgs)

\* ------------------------------------------------------------- /streets
StreetGroups_AllBays ==
  {[street_name |-> s,
    total_bays |-> Cardinality({id \in DOMAIN parking_bays :
                      parking_bays[id].road_segment_description = s})] :
     s \in StreetsQuery(NoBounds)}

StreetGroups_WithNull ==
  {[street_name |-> s,
    total_bays |-> Cardinality({id \in Joined :
                      parking_bays[id].road_segment_description = s})] :
     s \in {parking_bays[id].road_segment_description : id \in Joined}}

\* GROUP BY road_segment_description with count(kerbside_id).
StreetGroups ==
  {[street_name |-> s, total_bays |-> Cardinality(StreetQuery(s, NoBounds))] :
     s \in StreetsQuery(NoBounds)}

\* ORDER BY count DESC LIMIT 50: groups of equal count come in any order.
StreetsData ==
  LET groups == StreetGroups
  IN {SubSeq(s, 1, Min(MaxStreets, Len(s))) :
        s \in SortedRows(groups, [g \in groups |-> -g.total_bays])}

AvailableCount_AnyStreet(street_name) ==
  Cardinality({id \in Joined :
                 parking_status_current[id].status_description = "Unoccupied"})

AvailableCount_NotOccupied(street_name) ==
  Cardinality({id \in Joined :
                 /\ parking_bays[id].road_segment_description = street_name
                 /\ parking_status_current[id].status_description # "Occupied"})

AvailableCount(street_name) ==
  Cardinality({id \in Joined :
                 /\ parking_bays[id].road_segment_description = street_name
                 /\ parking_status_current[id].status_description = "Unoccupied"})

\* round(occupied_bays / total_bays * 100, 1), in tenths of a percent.
OccupancyRate(occupied_bays, total_bays) ==
  IF total_bays > 0 THEN (occupied_bays * 2000 + total_bays) \div (2 * total_bays) ELSE 0

StreetsStart ==
  /\ pc = "idle"
  /\ args' = [NoArgs EXCEPT !.endpoint = "streets"]
  /\ streets_data' \in StreetsData
  /\ results' = <<>>
  /\ pc' = "streets_loop"
  /\ UNCHANGED <<stores, importing, limit, street_names, street_idx, bays_per_street,
                 remaining_limit, response, previous>>

StreetsStreet ==
  /\ pc = "streets_loop"
  /\ Len(results) < Len(streets_data)
  /\ LET row == streets_data[Len(results) + 1]
         available_count == AvailableCount(row.street_name)
         occupied_bays == row.total_bays - available_count
     IN results' = Append(results,
                     [street_name |-> row.street_name,
                      total_bays |-> row.total_bays,
                      available_bays |-> available_count,
                      occupied_bays |-> occupied_bays,
                      occupancy_rate |-> OccupancyRate(occupied_bays, row.total_bays)])
  /\ UNCHANGED <<stores, importing, pc, args, limit, street_names, street_idx,
                 bays_per_street, remaining_limit, streets_data, response,
                 previous>>

StreetsReturn ==
  /\ pc = "streets_loop"
  /\ Len(results) = Len(streets_data)
  /\ response' = [code |-> 200, data |-> results]
  /\ pc' = "done"
  /\ UNCHANGED <<stores, importing, args, locals, previous>>

\* -------------------------------------------------------------- /nearby
\* math.cos(math.radians(lat)) * 10^4, for the latitudes of the requests.
Cos10000(lat) ==
  CASE lat >= -3781700 /\ lat <= -3781200 -> 7900
    [] lat = 9500000 -> -872

\* lat_range = radius / 111000, in 1e-5 degree.
LatRange(radius) == (radius * 100000) \div MetresPerDegree

\* lng_range = radius / (111000 * cos(radians(lat))), in 1e-5 degree.
LngRange(lat, radius) ==
  LET d == (MetresPerDegree \div 1000) * Cos10000(lat)
  IN IF d > 0 THEN (radius * 1000000) \div d
              ELSE -((radius * 1000000) \div (-d))

\* R * c of the haversine formula with R = 6371000, in centimetres, for
\* the pairs (center, bay position) of the model: four centers and the
\* positions of Latitude and Longitude, then the first center and the
\* positions of CrowdLatitude and CrowdLongitude.
DistanceTable ==
  <<-3781360, 14496310, -3781270, 14496310>> :> 10007 @@
  <<-3781360, 14496310, -3780820, 14496310>> :> 60045 @@
  <<-3781360, 14496310, -3781316, 14496310>> :> 4892 @@
  <<-3781360, 14496310, -3781360, -17999990>> :> 305940596 @@
  <<-3781360, 14496310, -3781405, 14496310>> :> 5003 @@
  <<-3781293, 14496310, -3781270, 14496310>> :> 2557 @@
  <<-3781293, 14496310, -3780820, 14496310>> :> 52595 @@
  <<-3781293, 14496310, -3781316, 14496310>> :> 2557 @@
  <<-3781293, 14496310, -3781360, -17999990>> :> 305942012 @@
  <<-3781293, 14496310, -3781405, 14496310>> :> 12453 @@
  <<-3781670, 14495810, -3781270, 14496310>> :> 62509 @@
  <<-3781670, 14495810, -3780820, 14496310>> :> 104223 @@
  <<-3781670, 14495810, -3781316, 14496310>> :> 58979 @@
  <<-3781670, 14495810, -3781360, -17999990>> :> 305977170 @@
  <<-3781670, 14495810, -3781405, 14496310>> :> 52890 @@
  <<-3781360, 17999990, -3781270, 14496310>> :> 305940773 @@
  <<-3781360, 17999990, -3780820, 14496310>> :> 305950285 @@
  <<-3781360, 17999990, -3781316, 14496310>> :> 305939801 @@
  <<-3781360, 17999990, -3781360, -17999990>> :> 1756 @@
  <<-3781360, 17999990, -3781405, 14496310>> :> 305937921 @@
  <<-3781360, 14496310, -3781359, 14496310>> :> 111 @@
  <<-3781360, 14496310, -3781358, 14496310>> :> 222 @@
  <<-3781360, 14496310, -3781357, 14496310>> :> 333 @@
  <<-3781360, 14496310, -3781356, 14496310>> :> 444 @@
  <<-3781360, 14496310, -3781355, 14496310>> :> 555 @@
  <<-3781360, 14496310, -3781354, 14496310>> :> 667 @@
  <<-3781360, 14496310, -3781353, 14496310>> :> 778 @@
  <<-3781360, 14496310, -3781352, 14496310>> :> 889 @@
  <<-3781360, 14496310, -3781351, 14496310>> :> 1000 @@
  <<-3781360, 14496310, -3781350, 14496310>> :> 1111 @@
  <<-3781360, 14496310, -3781349, 14496310>> :> 1223 @@
  <<-3781360, 14496310, -3781348, 14496310>> :> 1334 @@
  <<-3781360, 14496310, -3781347, 14496310>> :> 1445 @@
  <<-3781360, 14496310, -3781346, 14496310>> :> 1556 @@
  <<-3781360, 14496310, -3781345, 14496310>> :> 1667 @@
  <<-3781360, 14496310, -3781344, 14496310>> :> 1779 @@
  <<-3781360, 14496310, -3781343, 14496310>> :> 1890 @@
  <<-3781360, 14496310, -3781342, 14496310>> :> 2001 @@
  <<-3781360, 14496310, -3781341, 14496310>> :> 2112 @@
  <<-3781360, 14496310, -3781340, 14496310>> :> 2223 @@
  <<-3781360, 14496310, -3781346, 14496328>> :> 2218 @@
  <<-3781360, 14496310, -3781339, 14496310>> :> 2335

calculate_distance(lat1, lng1, lat2, lng2) == DistanceTable[<<lat1, lng1, lat2, lng2>>]

\* round(distance, 1): centimetres to decimetres.
Round1(cm) == (cm + 5) \div 10

NearbyQuery_AnyStatus(lat, lng, radius) ==
  {id \in Joined :
     /\ parking_bays[id].latitude >= lat - LatRange(radius)
     /\ parking_bays[id].latitude <= lat + LatRange(radius)
     /\ parking_bays[id].longitude >= lng - LngRange(lat, radius)
     /\ parking_bays[id].longitude <= lng + LngRange(lat, radius)}

\* The rows of the /nearby query: Unoccupied and inside the bounding box.
NearbyQuery(lat, lng, radius) ==
  {id \in Joined :
     /\ parking_status_current[id].status_description = "Unoccupied"
     /\ parking_bays[id].latitude >= lat - LatRange(radius)
     /\ parking_bays[id].latitude <= lat + LatRange(radius)
     /\ parking_bays[id].longitude >= lng - LngRange(lat, radius)
     /\ parking_bays[id].longitude <= lng + LngRange(lat, radius)}

BayDistance(lat, lng, id) ==
  calculate_distance(lat, lng, parking_bays[id].latitude, parking_bays[id].longitude)

\* if distance <= radius
WithinRadius(lat, lng, radius, id) == BayDistance(lat, lng, id) <= radius * 100

NearbyRow(lat, lng, id) ==
  [kerbside_id |-> id,
   latitude |-> parking_bays[id].latitude,
   longitude |-> parking_bays[id].longitude,
   distance |-> Round1(BayDistance(lat, lng, id)),
   road_segment |-> parking_bays[id].road_segment_description,
   zone_number |-> parking_status_current[id].zone_number]

\* available_spaces after sort(key=distance): list.sort is stable and the
\* query returns its rows in any order, so rows of equal rounded distance
\* come in any order.
AvailableSpaces(lat, lng, radius) ==
  LET kept == {NearbyRow(lat, lng, id) :
                 id \in {j \in NearbyQuery(lat, lng, radius) :
                           WithinRadius(lat, lng, radius, j)}}
  IN SortedRows(kept, [row \in kept |-> row.distance])

\* float(request.args.get(name)): raises TypeError for an absent parameter
\* and ValueError for a text that is no number.
FloatError(arg, values) ==
  IF arg = <<>> THEN "TypeError"
  ELSE IF arg[1] \notin DOMAIN values THEN "ValueError"
  ELSE "none"

\* request.args.get('radius', 500)
RadiusOrDefault(arg) == IF arg = <<>> THEN DefaultRadius ELSE MetresValue[arg[1]]

\* The /nearby handler, for a request of queries.
NearbyWith(queries) ==
  /\ pc = "idle"
  /\ \E query \in queries :
       LET lat_error == FloatError(query.lat, FloatValue)
           lng_error == FloatError(query.lng, FloatValue)
           radius_error == IF query.radius = <<>> THEN "none"
                           ELSE FloatError(query.radius, MetresValue)
       IN IF lat_error # "none" \/ lng_error # "none" \/ radius_error # "none"
          THEN /\ args' = [NoArgs EXCEPT !.endpoint = "nearby", !.query = query]
               /\ response' = ErrorResponse(IF lat_error # "none" THEN lat_error
                                            ELSE IF lng_error # "none" THEN lng_error
                                            ELSE radius_error)
          ELSE LET lat == FloatValue[query.lat[1]]
                   lng == FloatValue[query.lng[1]]
                   radius == RadiusOrDefault(query.radius)
               IN /\ args' = [NoArgs EXCEPT !.endpoint = "nearby", !.query = query,
                                            !.lat = lat, !.lng = lng,
                                            !.radius = radius]
                  /\ \E available_spaces \in AvailableSpaces(lat, lng, radius) :
                       response' = [code |-> 200,
                                    success |-> TRUE,
                                    data |-> SubSeq(available_spaces, 1,
                                               Min(NearbyLimit, Len(available_spaces))),
                                    search_center |-> [lat |-> lat, lng |-> lng],
                                    search_radius |-> radius]
  /\ pc' = "done"
  /\ UNCHANGED <<stores, importing, locals, previous>>

Nearby == NearbyWith(NearbyQueries)

\* ------------------------------------------------------ store failures
\* str(e) of the exception a query of the store raises when it fails.
StoreErrors == {"connection refused", "statement timeout"}

\* /current: the distinct-streets query of line 62 raises.
CurrentStartFailure ==
  /\ pc = "idle"
  /\ \E l \in QueryLimits, b \in {NoBounds, BoxBounds}, e \in StoreErrors :
       /\ args' = [NoArgs EXCEPT !.endpoint = "current", !.limit = l, !.bounds = b]
       /\ limit' = LimitOrDefault(l)
       /\ response' = ErrorResponse(e)
  /\ pc' = "done"
  /\ UNCHANGED <<stores, importing, street_names, street_idx, bays_per_street,
                 remaining_limit, results, streets_data, previous>>

\* /current: the query of the next street (line 103) raises; the rows
\* drawn so far are dropped with the handler's locals.
CurrentStreetFailure ==
  /\ pc = "current_loop"
  /\ street_idx < Len(street_names)
  /\ remaining_limit > 0
  /\ \E e \in StoreErrors : response' = ErrorResponse(e)
  /\ pc' = "done"
  /\ UNCHANGED <<stores, importing, args, locals, previous>>

\* /streets: the grouping query of line 150 raises.
StreetsStartFailure ==
  /\ pc = "idle"
  /\ args' = [NoArgs EXCEPT !.endpoint = "streets"]
  /\ \E e \in StoreErrors : response' = ErrorResponse(e)
  /\ pc' = "done"
  /\ UNCHANGED <<stores, importing, locals, previous>>

\* /streets: the count query of the next street (line 162) raises.
StreetsStreetFailure ==
  /\ pc = "streets_loop"
  /\ Len(results) < Len(streets_data)
  /\ \E e \in StoreErrors : response' = ErrorResponse(e)
  /\ pc' = "done"
  /\ UNCHANGED <<stores, importing, args, locals, previous>>

\* /nearby: the query of line 202 raises.
NearbyFailure ==
  /\ pc = "idle"
  /\ \E query \in NearbyQueries, e \in StoreErrors :
       /\ args' = [NoArgs EXCEPT !.endpoint = "nearby", !.query = query,
                                 !.lat = FloatValue[query.lat[1]],
                                 !.lng = FloatValue[query.lng[1]],
                                 !.radius = RadiusOrDefault(query.radius)]
       /\ response' = ErrorResponse(e)
  /\ pc' = "done"
  /\ UNCHANGED <<stores, importing, locals, previous>>

Respond_KeepsResults ==
  /\ pc = "done"
  /\ pc' = "idle"
  /\ args' = NoArgs
  /\ response' = NoResponse
  /\ UNCHANGED <<stores, importing, locals>>

\* The response is sent; the handler's locals are gone.
Respond ==
  /\ pc = "done"
  /\ pc' = "idle"
  /\ args' = NoArgs
  /\ limit' = 0
  /\ street_names' = <<>>
  /\ street_idx' = 0
  /\ bays_per_street' = 0
  /\ remaining_limit' = 0
  /\ results' = <<>>
  /\ streets_data' = <<>>
  /\ response' = NoResponse
  /\ UNCHANGED <<stores, importing>>

Finish == Respond /\ UNCHANGED previous

\* The same, seen by a client that keeps the response to compare it with
\* the response to its next, identical request.
FinishRemember == Respond /\ previous' = [args |-> args, response |-> response]

\* --------------------------------------------------------------- writers
\* Another client of the database commits a change of one row.  The
\* handlers set no isolation level and send one statement per query, so a
\* statement sees what was committed before it started.  A bay without a
\* status row is in no query result: inserting or deleting a bay shows to
\* the handlers as inserting or deleting its status row.  The writers keep
\* to the bays of WriterBays.
WriterBays == {1, 2}

WriteBay ==
  \E id \in WriterBays, s \in StreetNames \cup {NULL} :
    /\ parking_bays[id].road_segment_description # s
    /\ parking_bays' = [parking_bays EXCEPT ![id].road_segment_description = s]
    /\ UNCHANGED <<parking_status_current, other_tables, importing, pc, args,
                   locals, response, previous>>

WriteStatus ==
  \E id \in WriterBays : \E status \in Statuses(id) :
    /\ parking_status_current' =
         [j \in DOMAIN parking_status_current \cup {id} |->
            IF j = id THEN [status_description |-> status, zone_number |-> ZoneNumber(id)]
            ELSE parking_status_current[j]]
    /\ parking_status_current' # parking_status_current
    /\ UNCHANGED <<parking_bays, other_tables, importing, pc, args,
                   locals, response, previous>>

DeleteStatus ==
  \E id \in DOMAIN parking_status_current :
    /\ parking_status_current' =
         [j \in DOMAIN parking_status_current \ {id} |-> parking_status_current[j]]
    /\ UNCHANGED <<parking_bays, other_tables, importing, pc, args,
                   locals, response, previous>>

\* ------------------------------------------------------------ importers
\* The import scripts write the tables from CSV files.  Each import method
\* opens a connection with autocommit off, runs its statements and commits
\* once at the end, so what it wrote shows to others all at once; when it
\* finds no file or fails before the commit it rolls back and has written
\* nothing.  The rows of a file are the rows the tables accept.
serving == <<pc, args, locals, response, previous>>

RequiredTables ==
  {"victoria_population_growth", "melbourne_population_history",
   "parking_bays", "parking_status_current", "parking_status_history",
   "parking_hourly_stats", "api_collection_log"}

\* The periods of the Victoria row: one INSERT each.
VictoriaPeriods == 5

\* Rows of only_melbourne_city_1_without_none.csv.
MelbourneRows == 1

\* Records of on-street-parking-bay-sensors.csv, at most.
MaxRecords == 2

\* Rows of parking_status_history, at most: no import starts that could
\* exceed it.
MaxHistory == 4

\* Transactions of the import script, at most.
MaxNow == 9

\* import_to_railway.py stops after this many records.
DemoRecords == 1000

\* Ids of the records of the two parking files.
ImportIds == {1, 3}

\* Status_Description of a sensor record; NULL is the empty cell (NaN).
SensorStatuses == {"Occupied", "Unoccupied", NULL}

SensorRecords == [KerbsideID : ImportIds, Status_Description : SensorStatuses]

SensorFiles == UNION {[1..n -> SensorRecords] : n \in 0..MaxRecords}

BayRecord(id, lat, street_name) ==
  [KerbsideID |-> id, Latitude |-> lat, Longitude |-> Longitude(id),
   RoadSegmentDescription |-> street_name]

\* on-street-parking-bays.csv: no record; bay 1; bay 1 twice under two
\* names and bay 3; bay 3 without a latitude.
BayFiles ==
  {<<>>,
   <<BayRecord(1, Latitude(1), "A St")>>,
   <<BayRecord(1, Latitude(1), "A St"), BayRecord(3, Latitude(3), "B St"),
     BayRecord(1, Latitude(1), "B St")>>,
   <<BayRecord(1, Latitude(1), "B St"), BayRecord(3, NullCoordinate, "A St")>>}

\* INSERT ... ON CONFLICT (kerbside_id) DO UPDATE, and INSERT OR REPLACE.
Upsert(table, id, row) ==
  [j \in DOMAIN table \cup {id} |-> IF j = id THEN row ELSE table[j]]

\* A row of parking_bays as the import script writes it; updated_at is
\* CURRENT_TIMESTAMP, the start of the transaction.
BayRow(row, at) ==
  [latitude |-> row.Latitude,
   longitude |-> row.Longitude,
   road_segment_description |-> row.RoadSegmentDescription,
   updated_at |-> at]

\* The loop of import_parking_bays_data over the rows of the file: a record
\* without a position is passed over, any other is upserted.
RECURSIVE ImportBaysRows(_, _, _)
ImportBaysRows(df, bays, at) ==
  IF df = <<>> THEN bays
  ELSE LET row == Head(df)
       IN ImportBaysRows(Tail(df),
            IF row.Latitude = NullCoordinate \/ row.Longitude = NullCoordinate
            THEN bays
            ELSE Upsert(bays, row.KerbsideID, BayRow(row, at)),
            at)

\* What a sensor import has done so far: the two tables as it will commit
\* them, the records it counted as imported and the records it counted as
\* skipped.
SensorStart(current, history) ==
  [current |-> current,
   history |-> history,
   imported |-> <<>>,
   skipped_count |-> 0]

StatusRow(id, status, at) ==
  [status_description |-> status, zone_number |-> ZoneNumber(id), updated_at |-> at]

HistoryRow(id, status) == [kerbside_id |-> id, status_description |-> status]

\* The same loop writing a row for a record whose bay is not in
\* parking_bays.
RECURSIVE ImportSensorRows_NoBayCheck(_, _, _, _)
ImportSensorRows_NoBayCheck(df, valid_kerbside_ids, at, done) ==
  IF df = <<>> THEN done
  ELSE LET row == Head(df)
           kerbside_id == row.KerbsideID
           status_description == row.Status_Description
       IN ImportSensorRows_NoBayCheck(Tail(df), valid_kerbside_ids, at,
            IF status_description = NULL THEN done
            ELSE [done EXCEPT
                    !.current = Upsert(@, kerbside_id,
                                       StatusRow(kerbside_id, status_description, at)),
                    !.history = Append(@, HistoryRow(kerbside_id, status_description)),
                    !.imported = Append(@, row)])

\* The loop of import_parking_sensor_data over the rows of the file:
\* a record without a status is passed over, a record of a bay that is not
\* in valid_kerbside_ids is counted as skipped, any other record is
\* upserted into parking_status_current and inserted into
\* parking_status_history.
RECURSIVE ImportSensorRows(_, _, _, _)
ImportSensorRows(df, valid_kerbside_ids, at, done) ==
  IF df = <<>> THEN done
  ELSE LET row == Head(df)
           kerbside_id == row.KerbsideID
           status_description == row.Status_Description
       IN ImportSensorRows(Tail(df), valid_kerbside_ids, at,
            IF status_description = NULL THEN done
            ELSE IF kerbside_id \notin valid_kerbside_ids
            THEN [done EXCEPT !.skipped_count = @ + 1]
            ELSE [done EXCEPT
                    !.current = Upsert(@, kerbside_id,
                                       StatusRow(kerbside_id, status_description, at)),
                    !.history = Append(@, HistoryRow(kerbside_id, status_description)),
                    !.imported = Append(@, row)])

\* The import writing the record of every bay.
ImportParkingSensorData_NoBayCheck ==
  ImportSensorRows_NoBayCheck(sensors_csv, DOMAIN parking_bays, now,
                              SensorStart(parking_status_current, parking_status_history))

\* import_parking_sensor_data, from the SELECT of the valid ids to the
\* commit.
ImportParkingSensorData ==
  ImportSensorRows(sensors_csv, DOMAIN parking_bays, now,
                   SensorStart(parking_status_current, parking_status_history))

\* The state before any import: no file, every table there, nothing run.
NoImport ==
  /\ parking_status_history = <<>>
  /\ victoria_population_growth = 0
  /\ melbourne_population_history = 0
  /\ tables = RequiredTables
  /\ bays_csv = <<>>
  /\ sensors_csv = <<>>
  /\ import_pc = "idle"
  /\ imports_run = <<>>
  /\ import_result = <<>>
  /\ imported = <<>>
  /\ skipped_count = 0
  /\ now = 0

Step(name, ok) == [step |-> name, ok |-> ok]

\* No run starts that could take a table beyond the bounds.
WithinBounds ==
  /\ Len(parking_status_history) + Len(sensors_csv) <= MaxHistory
  /\ now + 4 <= MaxNow

\* run_full_import, up to the connection test: get_database_connection()
\* raises when the database cannot be reached, and the handler of the
\* outer try returns False.
RunFullImport ==
  /\ import_pc = "idle"
  /\ WithinBounds
  /\ \E ok \in BOOLEAN :
       /\ imports_run' = <<Step("get_database_connection", ok)>>
       /\ import_pc' = IF ok THEN "verify_tables_exist" ELSE "done"
       /\ import_result' = IF ok THEN <<>> ELSE <<FALSE>>
  /\ imported' = <<>>
  /\ skipped_count' = 0
  /\ UNCHANGED <<serving, parking_bays, parking_status_current, other_tables,
                 bays_csv, sensors_csv, now>>

\* verify_tables_exist: False when a required table is missing or when its
\* own connection fails; run_full_import then returns False.
VerifyTablesExist ==
  /\ import_pc = "verify_tables_exist"
  /\ \E connected \in BOOLEAN :
       LET ok == connected /\ RequiredTables \subseteq tables
       IN /\ imports_run' = Append(imports_run, Step("verify_tables_exist", ok))
          /\ import_pc' = IF ok THEN "import_victoria_population_data" ELSE "done"
          /\ import_result' = IF ok THEN <<>> ELSE <<FALSE>>
  /\ UNCHANGED <<serving, parking_bays, parking_status_current, other_tables,
                 bays_csv, sensors_csv, imported, skipped_count, now>>

\* import_victoria_population_data: the five INSERT ... ON CONFLICT DO
\* NOTHING commit, adding the rows or meeting the rows of an earlier run, or
\* the file or the connection is missing and nothing is written.
ImportVictoriaPopulationData ==
  /\ import_pc = "import_victoria_population_data"
  /\ \E ok \in BOOLEAN, inserted \in {0, VictoriaPeriods} :
       /\ ~ok => inserted = 0
       /\ victoria_population_growth' = victoria_population_growth + inserted
       /\ imports_run' = Append(imports_run, Step("import_victoria_population_data", ok))
  /\ import_pc' = "import_melbourne_population_history"
  /\ now' = now + 1
  /\ UNCHANGED <<serving, parking_bays, parking_status_current,
                 parking_status_history, melbourne_population_history, tables,
                 bays_csv, sensors_csv, import_result, imported, skipped_count>>

\* import_melbourne_population_history: the same for the rows of its file.
ImportMelbournePopulationHistory ==
  /\ import_pc = "import_melbourne_population_history"
  /\ \E ok \in BOOLEAN, inserted \in {0, MelbourneRows} :
       /\ ~ok => inserted = 0
       /\ melbourne_population_history' = melbourne_population_history + inserted
       /\ imports_run' = Append(imports_run, Step("import_melbourne_population_history", ok))
  /\ import_pc' = "import_parking_bays_data"
  /\ now' = now + 1
  /\ UNCHANGED <<serving, parking_bays, parking_status_current,
                 parking_status_history, victoria_population_growth, tables,
                 bays_csv, sensors_csv, import_result, imported, skipped_count>>

\* The bay import ending the run when it fails.
ImportParkingBaysData_EndsRun ==
  /\ import_pc = "import_parking_bays_data"
  /\ \E ok \in BOOLEAN :
       /\ parking_bays' = IF ok THEN ImportBaysRows(bays_csv, parking_bays, now)
                          ELSE parking_bays
       /\ imports_run' = Append(imports_run, Step("import_parking_bays_data", ok))
       /\ import_pc' = IF ok THEN "import_parking_sensor_data" ELSE "done"
       /\ import_result' = IF ok THEN import_result ELSE <<FALSE>>
  /\ now' = now + 1
  /\ UNCHANGED <<serving, parking_status_current, other_tables,
                 bays_csv, sensors_csv, imported, skipped_count>>

\* import_parking_bays_data: the upserts commit, or the file or the
\* connection is missing and nothing is written; run_full_import goes on
\* either way.
ImportParkingBaysData ==
  /\ import_pc = "import_parking_bays_data"
  /\ \E ok \in BOOLEAN :
       /\ parking_bays' = IF ok THEN ImportBaysRows(bays_csv, parking_bays, now)
                          ELSE parking_bays
       /\ imports_run' = Append(imports_run, Step("import_parking_bays_data", ok))
  /\ import_pc' = "import_parking_sensor_data"
  /\ now' = now + 1
  /\ UNCHANGED <<serving, parking_status_current, other_tables,
                 bays_csv, sensors_csv, import_result, imported, skipped_count>>

\* The writes of a sensor import that committed (written) or failed.
SensorImportWrites(ok, written) ==
  /\ parking_status_current' = IF ok THEN written.current ELSE parking_status_current
  /\ parking_status_history' = IF ok THEN written.history ELSE parking_status_history
  /\ imported' = IF ok THEN written.imported ELSE <<>>
  /\ skipped_count' = IF ok THEN written.skipped_count ELSE 0

ImportParkingSensorDataStep ==
  /\ import_pc = "import_parking_sensor_data"
  /\ \E ok \in BOOLEAN :
       /\ SensorImportWrites(ok, ImportParkingSensorData)
       /\ imports_run' = Append(imports_run, Step("import_parking_sensor_data", ok))
  /\ import_pc' = "return"
  /\ now' = now + 1
  /\ UNCHANGED <<serving, parking_bays, victoria_population_growth,
                 melbourne_population_history, tables,
                 bays_csv, sensors_csv, import_result>>

\* return True, after the second get_table_counts().
RunReturn ==
  /\ import_pc = "return"
  /\ import_result' = <<TRUE>>
  /\ import_pc' = "done"
  /\ UNCHANGED <<serving, parking_bays, parking_status_current, other_tables,
                 bays_csv, sensors_csv, imports_run, imported, skipped_count, now>>

\* main() ends; the script can be run again.
RunExit ==
  /\ import_pc = "done"
  /\ import_pc' = "idle"
  /\ UNCHANGED <<serving, parking_bays, parking_status_current, other_tables,
                 bays_csv, sensors_csv, imports_run, import_result,
                 imported, skipped_count, now>>

\* import_parking_sensor_data called by itself.
ImportParkingSensorDataCall ==
  /\ import_pc = "idle"
  /\ WithinBounds
  /\ \E ok \in BOOLEAN : SensorImportWrites(ok, ImportParkingSensorData)
  /\ now' = now + 1
  /\ UNCHANGED <<serving, parking_bays, victoria_population_growth,
                 melbourne_population_history, tables, bays_csv, sensors_csv,
                 import_pc, imports_run, import_result>>

\* sample_statuses of create_sample_status_data.
SampleStatuses ==
  <<"Unoccupied", "Occupied", "Unoccupied", "Unoccupied",
    "Occupied", "Unoccupied", "Occupied", "Unoccupied">>

\* The loop of import_sensor_status_from_csv (init_render_data.py): an
\* empty status becomes 'Unknown', and the record is written whether or not
\* its bay is in parking_bays.
RECURSIVE RenderSensorRows(_, _, _)
RenderSensorRows(df, at, done) ==
  IF df = <<>> THEN done
  ELSE LET row == Head(df)
           kerbside_id == row.KerbsideID
           status_description == IF row.Status_Description = NULL THEN "Unknown"
                                 ELSE row.Status_Description
       IN RenderSensorRows(Tail(df), at,
            [done EXCEPT
               !.current = Upsert(@, kerbside_id,
                                  StatusRow(kerbside_id, status_description, at)),
               !.history = Append(@, HistoryRow(kerbside_id, status_description)),
               !.imported = Append(@, row)])

\* create_sample_status_data: the bays of SELECT ... LIMIT 8, in the order
\* the query gives them, get the sample statuses and the zones 1, 2, 3.
SampleStatusData(bay_ids, at) ==
  [current |-> [id \in DOMAIN parking_status_current \cup
                        {bay_ids[i] : i \in 1..Len(bay_ids)} |->
                  IF \E i \in 1..Len(bay_ids) : bay_ids[i] = id
                  THEN LET i == CHOOSE j \in 1..Len(bay_ids) : bay_ids[j] = id
                       IN [status_description |-> SampleStatuses[i],
                           zone_number |-> ((i - 1) % 3) + 1,
                           updated_at |-> at]
                  ELSE parking_status_current[id]],
   history |-> parking_status_history \o
                 [i \in 1..Len(bay_ids) |-> HistoryRow(bay_ids[i], SampleStatuses[i])],
   imported |-> [i \in 1..Len(bay_ids) |->
                   [KerbsideID |-> bay_ids[i], Status_Description |-> SampleStatuses[i]]],
   skipped_count |-> 0]

\* import_sensor_status_from_csv with the commit of init_render_database:
\* the rows of the file, or, when the file cannot be read, the sample data.
ImportSensorStatusFromCsv ==
  /\ import_pc = "idle"
  /\ WithinBounds
  /\ Len(parking_status_history) + Cardinality(DOMAIN parking_bays) <= MaxHistory
  /\ \E ok \in BOOLEAN :
       \E bay_ids \in AnyRows(DOMAIN parking_bays,
                              Min(Cardinality(DOMAIN parking_bays), Len(SampleStatuses))) :
         SensorImportWrites(TRUE,
           IF ok THEN RenderSensorRows(sensors_csv, now,
                        SensorStart(parking_status_current, parking_status_history))
           ELSE SampleStatusData(bay_ids, now))
  /\ now' = now + 1
  /\ UNCHANGED <<serving, parking_bays, victoria_population_growth,
                 melbourne_population_history, tables, bays_csv, sensors_csv,
                 import_pc, imports_run, import_result>>

\* random.choice(['Occupied', 'Unoccupied', 'Unoccupied', 'Unoccupied']).
DemoStatuses == {"Occupied", "Unoccupied"}

\* The loop of import_sensor_data (import_to_railway.py) over the first
\* DemoRecords records, statuses[i] being the status drawn for record i.
\* The INSERT of a record whose bay is not in parking_bays violates the
\* foreign key: the statement fails, the transaction is aborted and every
\* later statement fails as well (failed TRUE).  On a conflict the UPDATE
\* sets the status and leaves zone_number and updated_at.
RECURSIVE DemoSensorRows(_, _, _, _)
DemoSensorRows(df, statuses, at, done) ==
  IF df = <<>> \/ Len(done.imported) >= DemoRecords THEN done
  ELSE LET row == Head(df)
           kerbside_id == row.KerbsideID
           status == Head(statuses)
       IN DemoSensorRows(Tail(df), Tail(statuses), at,
            IF done.failed THEN done
            ELSE IF kerbside_id \notin DOMAIN parking_bays
            THEN [done EXCEPT !.failed = TRUE]
            ELSE [done EXCEPT
                    !.current =
                       IF kerbside_id \in DOMAIN @
                       THEN [@ EXCEPT ![kerbside_id].status_description = status]
                       ELSE Upsert(@, kerbside_id,
                                   [status_description |-> status,
                                    zone_number |-> 1,
                                    updated_at |-> at]),
                    !.imported = Append(@, row)])

\* import_sensor_data with its commit: the commit of an aborted transaction
\* is a rollback, and imported_count has counted the records before the
\* failure.  The function writes no history.
ImportSensorData ==
  /\ import_pc = "idle"
  /\ WithinBounds
  /\ \E statuses \in [1..Len(sensors_csv) -> DemoStatuses] :
       LET done == DemoSensorRows(sensors_csv, statuses, now,
                     [current |-> parking_status_current,
                      imported |-> <<>>,
                      failed |-> FALSE])
       IN /\ parking_status_current' = IF done.failed THEN parking_status_current
                                       ELSE done.current
          /\ imported' = done.imported
  /\ skipped_count' = 0
  /\ now' = now + 1
  /\ UNCHANGED <<serving, parking_bays, other_tables, bays_csv, sensors_csv,
                 import_pc, imports_run, import_result>>

\* ------------------------------------------------- a crowded block
\* NearbyLimit + 2 bays within 25 m of the point (-37.81360, 144.96310):
\* bay id lies id * 1e-5 degree north of it (bay 20 at 22.24 m), except
\* the last but one, which lies at 22.19 m to the north-east (both have
\* the rounded distance 22.2), and the last, which lies 23.35 m north.
CrowdIds == 1..(NearbyLimit + 2)

CrowdLatitude(id) ==
  -3781360 + (IF id = NearbyLimit + 1 THEN 14
              ELSE IF id = NearbyLimit + 2 THEN NearbyLimit + 1
              ELSE id)

CrowdLongitude(id) == 14496310 + (IF id = NearbyLimit + 1 THEN 18 ELSE 0)

CrowdBays ==
  [id \in CrowdIds |-> [latitude |-> CrowdLatitude(id),
                        longitude |-> CrowdLongitude(id),
                        road_segment_description |->
                          IF id % 2 = 0 THEN "A St" ELSE "B St"]]

\* The bays of the block whose status row varies.
CrowdVaried == {1, NearbyLimit, NearbyLimit + 1, NearbyLimit + 2}

\* The status rows of the block: every bay Unoccupied, except that a bay of
\* CrowdVaried may have no row or carry OtherStatus.
CrowdStatusTables ==
  {[id \in CrowdIds \ missing |->
      [status_description |-> IF id \in other THEN OtherStatus(id) ELSE "Unoccupied",
       zone_number |-> ZoneNumber(id)]] :
     missing \in SUBSET CrowdVaried, other \in SUBSET CrowdVaried}

\* The /nearby requests around the block.
CrowdQueries ==
  {[lat |-> <<"-37.81360">>, lng |-> <<"144.96310">>, radius |-> r] : r \in Radii}

\* -------------------------------------------------------- many streets
\* MaxStreets + 1 streets, in ascending order of name.
ManyStreetNames ==
  <<
    "S01", "S02", "S03", "S04", "S05", "S06", "S07", "S08", "S09", "S10",
    "S11", "S12", "S13", "S14", "S15", "S16", "S17", "S18", "S19", "S20",
    "S21", "S22", "S23", "S24", "S25", "S26", "S27", "S28", "S29", "S30",
    "S31", "S32", "S33", "S34", "S35", "S36", "S37", "S38", "S39", "S40",
    "S41", "S42", "S43", "S44", "S45", "S46", "S47", "S48", "S49", "S50",
    "S51"
  >>

\* The street (an index of ManyStreetNames) of bay id: street 1 has bay 1,
\* and street k > 1 has the k - 1 bays after those of street k - 1, so the
\* two smallest streets both have one bay and no other two have the same
\* number.  The last bay has no street name.
ManyStreetOf(id) ==
  CHOOSE k \in 1..(MaxStreets + 1) :
    /\ id <= 1 + ((k - 1) * k) \div 2
    /\ k > 1 => id > 1 + ((k - 2) * (k - 1)) \div 2

ManyIds == 1..(2 + (MaxStreets * (MaxStreets + 1)) \div 2)

ManyBays ==
  [id \in ManyIds |->
     [latitude |-> Latitude(1),
      longitude |-> Longitude(1),
      road_segment_description |->
        IF \A other \in ManyIds : other <= id THEN NULL
        ELSE ManyStreetNames[ManyStreetOf(id)]]]

\* The bays of the many streets whose status row varies: the bays of the
\* two smallest streets.
ManyVaried == {1, 2}

\* The status rows of the many streets: the bays of even id Unoccupied, the
\* others with OtherStatus, except that a bay of ManyVaried may have no row
\* or the other status.
ManyStatusTables ==
  {[id \in ManyIds \ missing |->
      [status_description |-> IF (id % 2 = 0) = (id \notin other)
                              THEN "Unoccupied" ELSE OtherStatus(id),
       zone_number |-> ZoneNumber(id)]] :
     missing \in SUBSET ManyVaried, other \in SUBSET ManyVaried}

\* ------------------------------------------------------------------- spec
\* The possible contents of the table parking_bays.
BayTables ==
  {[id \in BayIds |-> [latitude |-> Latitude(id),
                       longitude |-> Longitude(id),
                       road_segment_description |-> s[id]]] :
     s \in [BayIds -> StreetNames \cup {NULL}]}

\* The possible contents of the table parking_status_current: at most one
\* row per bay, and every row is the row of a bay (primary key and foreign
\* key kerbside_id).  The status of bay id is Unoccupied, or, with others,
\* OtherStatus(id).
StatusTables(others) ==
  UNION {{[id \in D |-> [status_description |-> st[id],
                         zone_number |-> ZoneNumber(id)]] :
            st \in {f \in [D -> {"Unoccupied"} \cup {OtherStatus(i) : i \in D}] :
                      \A i \in D : f[i] \in (IF others THEN Statuses(i)
                                                       ELSE {"Unoccupied"})}} :
           D \in SUBSET BayIds}

Init ==
  /\ parking_bays \in BayTables
  /\ parking_status_current \in StatusTables(TRUE)
  /\ InitLocals
  /\ NoImport

\* The three endpoints over every table content.
Next ==
  \/ CurrentStartWith(QueryLimits, {NoBounds, BoxBounds})
  \/ CurrentStreet
  \/ CurrentReturn
  \/ StreetsStart
  \/ StreetsStreet
  \/ StreetsReturn
  \/ Nearby
  \/ Finish

Spec == Init /\ [][Next]_vars

\* /current alone, with every limit and every bounds text.  The handler
\* copies the status text to the row and reads nothing else of it, so the
\* rows of parking_status_current all carry the same text here.
InitSampler ==
  /\ parking_bays \in BayTables
  /\ parking_status_current \in StatusTables(FALSE)
  /\ InitLocals
  /\ NoImport

NextSampler ==
  \/ CurrentStart
  \/ CurrentStreet
  \/ CurrentReturn
  \/ Finish

SpecSampler == InitSampler /\ [][NextSampler]_vars

\* /current requested again and again by a client that compares responses.
RepeatedLimits == {<<2>>, <<3>>}

NextTwice ==
  \/ CurrentStartWith(RepeatedLimits, {NoBounds})
  \/ CurrentStreet
  \/ CurrentReturn
  \/ FinishRemember

SpecTwice == InitSampler /\ [][NextTwice]_vars

\* /nearby over the crowded block.
InitCrowd ==
  /\ parking_bays = CrowdBays
  /\ parking_status_current \in CrowdStatusTables
  /\ InitLocals
  /\ NoImport

NextCrowd ==
  \/ NearbyWith(CrowdQueries)
  \/ Finish

SpecCrowd == InitCrowd /\ [][NextCrowd]_vars

\* /current over tables in which one bay may have a NULL latitude.
CorruptBayTables ==
  BayTables \cup {[t EXCEPT ![id].latitude = NullCoordinate] :
                    t \in BayTables, id \in BayIds}

InitCorrupt ==
  /\ parking_bays \in CorruptBayTables
  /\ parking_status_current \in StatusTables(FALSE)
  /\ InitLocals
  /\ NoImport

NextCorrupt ==
  \/ CurrentStartWith(QueryLimits, {NoBounds, BoxBounds})
  \/ CurrentStreet
  \/ CurrentReturn
  \/ Finish

SpecCorrupt == InitCorrupt /\ [][NextCorrupt]_vars

\* /streets alone, over every content of the small tables and over the
\* many streets.
InitStreets ==
  /\ \/ /\ parking_bays \in BayTables
        /\ parking_status_current \in StatusTables(TRUE)
     \/ /\ parking_bays = ManyBays
        /\ parking_status_current \in ManyStatusTables
  /\ InitLocals
  /\ NoImport

NextStreets ==
  \/ StreetsStart
  \/ StreetsStreet
  \/ StreetsReturn
  \/ Finish

SpecStreets == InitStreets /\ [][NextStreets]_vars

\* /streets and /current while other clients write to the database.
WriterLimits == {<<>>, <<-1>>, <<2>>, <<3>>}

NextWriters ==
  \/ CurrentStartWith(WriterLimits, {NoBounds})
  \/ CurrentStreet
  \/ CurrentReturn
  \/ StreetsStart
  \/ StreetsStreet
  \/ StreetsReturn
  \/ WriteBay
  \/ WriteStatus
  \/ DeleteStatus
  \/ Finish

\* The other bays have no street name and no status row.
InitWriters ==
  /\ parking_bays \in {t \in BayTables :
                         \A id \in BayIds \ WriterBays :
                           t[id].road_segment_description = NULL}
  /\ parking_status_current \in {t \in StatusTables(TRUE) : DOMAIN t \subseteq WriterBays}
  /\ InitLocals
  /\ NoImport

SpecWriters == InitWriters /\ [][NextWriters]_vars

\* The three endpoints over a store whose queries can fail.  No handler
\* reads more of a status row than the text it copies or compares, so the
\* rows of parking_status_current all carry the same text here.
NextOutage ==
  \/ CurrentStartWith(QueryLimits, {NoBounds, BoxBounds})
  \/ CurrentStreet
  \/ CurrentReturn
  \/ StreetsStart
  \/ StreetsStreet
  \/ StreetsReturn
  \/ Nearby
  \/ CurrentStartFailure
  \/ CurrentStreetFailure
  \/ StreetsStartFailure
  \/ StreetsStreetFailure
  \/ NearbyFailure
  \/ Finish

SpecOutage == InitSampler /\ [][NextOutage]_vars

\* /nearby alone, with the requests of NearbyQueries and InvalidQueries.
NextNearby ==
  \/ NearbyWith(NearbyQueries \cup InvalidQueries)
  \/ Finish

SpecNearby == Init /\ [][NextNearby]_vars

\* The Railway import script run again and again over every pair of parking
\* files, from tables that hold nothing, bay 1, or bays 1 and 2, with a
\* status row for every bay or for none; the table parking_status_history
\* may be missing.
ImportBayTables ==
  {[id \in D |-> [latitude |-> Latitude(id),
                  longitude |-> Longitude(id),
                  road_segment_description |-> "A St",
                  updated_at |-> 0]] : D \in {{}, {1}, {1, 2}}}

InitImport ==
  /\ InitLocals
  /\ parking_bays \in ImportBayTables
  /\ parking_status_current \in
       {[id \in D |-> StatusRow(id, "Unoccupied", 0)] : D \in {{}, DOMAIN parking_bays}}
  /\ parking_status_history = <<>>
  /\ victoria_population_growth = 0
  /\ melbourne_population_history = 0
  /\ tables \in {RequiredTables, RequiredTables \ {"parking_status_history"}}
  /\ bays_csv \in BayFiles
  /\ sensors_csv \in SensorFiles
  /\ import_pc = "idle"
  /\ imports_run = <<>>
  /\ import_result = <<>>
  /\ imported = <<>>
  /\ skipped_count = 0
  /\ now = 1

NextImport ==
  \/ RunFullImport
  \/ VerifyTablesExist
  \/ ImportVictoriaPopulationData
  \/ ImportMelbournePopulationHistory
  \/ ImportParkingBaysData
  \/ ImportParkingSensorDataStep
  \/ RunReturn
  \/ RunExit

SpecImport == InitImport /\ [][NextImport]_vars

\* The three sensor imports called in any order, again and again, on the
\* tables and files of InitImport.  The two Railway scripts write the same
\* PostgreSQL database; init_render_data.py writes tables of the same
\* names and keys in SQLite.
NextSensors ==
  \/ ImportParkingSensorDataCall
  \/ ImportSensorStatusFromCsv
  \/ ImportSensorData

SpecSensors == InitImport /\ [][NextSensors]_vars

\* ================================================================ claims
\* The request's targetCount: the limit parameter, 1500 when it is absent.
TargetCount == IF args.limit = <<>> THEN 1500 ELSE args.limit[1]

\* The candidate set of the request: the view's rows inside the viewport.
CandidateRows == {id \in Joined : InBounds(args.bounds, id)}

CandidateStreets ==
  {parking_bays[id].road_segment_description : id \in CandidateRows} \ {NULL}

RowsOfStreet(data, s) == {i \in 1..Len(data) : data[i].road_segment = s}

\* The streets that have a row in data.
StreetsOf(data) == {data[i].road_segment : i \in 1..Len(data)}

CurrentDone == pc = "done" /\ args.endpoint = "current"

\* C1 (as stated): the sample holds at most target_bays_per_street rows of
\* any one street and at most targetCount rows in total, for every
\* targetCount.
C1_QuotaAndTotalBound_AsStated ==
  CurrentDone =>
    /\ \A s \in StreetsOf(response.data) :
         Cardinality(RowsOfStreet(response.data, s))
           <= response.distribution_info.target_bays_per_street
    /\ Len(response.data) <= TargetCount

\* C1 (amended): the sample holds at most target_bays_per_street rows of any
\* one street, and at most max(0, targetCount) rows in total: a negative
\* limit gives an empty sample.
C1_QuotaAndTotalBound ==
  CurrentDone =>
    /\ \A s \in StreetsOf(response.data) :
         Cardinality(RowsOfStreet(response.data, s))
           <= response.distribution_info.target_bays_per_street
    /\ Len(response.data) <= Max(0, TargetCount)

\* C1 witness: a street with more candidate rows than the quota contributed
\* exactly the quota, and the sample is as large as targetCount.
C1_Witness ==
  /\ CurrentDone
  /\ Len(response.data) = TargetCount
  /\ \E s \in StreetNames :
       /\ Cardinality(StreetQuery(s, args.bounds))
            > response.distribution_info.target_bays_per_street
       /\ Cardinality(RowsOfStreet(response.data, s))
            = response.distribution_info.target_bays_per_street

\* C2: the quota used by the loop and reported in the response is
\* max(2, floor(targetCount / S)) when S > 0 and targetCount when S = 0,
\* S being the number of distinct non-null street names of the candidate
\* set; targetCount is 1500 when the request gives no limit.
C2_Quota ==
  LET S == Cardinality(CandidateStreets)
      quota == IF S > 0
               THEN (IF TargetCount \div S >= 2 THEN TargetCount \div S ELSE 2)
               ELSE TargetCount
  IN /\ (pc = "current_loop" \/ CurrentDone) => bays_per_street = quota
     /\ CurrentDone => response.distribution_info.target_bays_per_street = quota

\* C2 witness: a response whose quota is floor(targetCount / S) > 2 for an
\* explicit limit, after a street has been drawn from.
C2_Witness ==
  /\ CurrentDone
  /\ args.limit # <<>>
  /\ Cardinality(CandidateStreets) = 1
  /\ response.distribution_info.target_bays_per_street = 3
  /\ Len(response.data) > 0

\* The rows each street of sizes gives under the claim's rule, the streets
\* taken in order: min(quota, budget, size) rows while the budget lasts.
RECURSIVE C3_Draws(_, _, _)
C3_Draws(sizes, quota, budget) ==
  IF sizes = <<>> THEN <<>>
  ELSE IF budget <= 0 THEN <<0>> \o C3_Draws(Tail(sizes), quota, budget)
  ELSE LET n == Min(Min(quota, budget), Head(sizes))
       IN <<n>> \o C3_Draws(Tail(sizes), quota, budget - n)

RECURSIVE C3_Sum(_)
C3_Sum(q) == IF q = <<>> THEN 0 ELSE Head(q) + C3_Sum(Tail(q))

\* C3: no redistribution.  In visiting order and starting from a budget of
\* targetCount, each street visited contributes exactly
\* min(quota, remaining budget, its candidate rows) rows, the budget goes
\* down by the rows drawn, and the quota stays what it was at the start;
\* streets not visited contribute nothing.  Street sizes {10, 2, 50} with
\* targetCount 30 give quota 10 and 10 + 2 + 10 = 22 rows.
C3_NoRedistribution ==
  /\ (pc = "current_loop" \/ CurrentDone) =>
       LET sizes == [i \in 1..Len(street_names) |->
                       Cardinality({id \in CandidateRows :
                          parking_bays[id].road_segment_description = street_names[i]})]
           quota == IF Len(street_names) > 0
                    THEN Max(2, TargetCount \div Len(street_names))
                    ELSE TargetCount
           draws == C3_Draws(sizes, quota, TargetCount)
       IN /\ \A i \in 1..Len(street_names) :
               Cardinality(RowsOfStreet(results, street_names[i]))
                 = (IF i <= street_idx THEN draws[i] ELSE 0)
          /\ Len(results) = C3_Sum(SubSeq(draws, 1, street_idx))
          /\ remaining_limit = TargetCount - Len(results)
          /\ CurrentDone => response.data = results
  /\ LET quota == BaysPerStreet(LimitOrDefault(<<30>>), 3)
         draws == C3_Draws(<<10, 2, 50>>, quota, 30)
     IN quota = 10 /\ draws = <<10, 2, 10>> /\ C3_Sum(draws) = 22

\* C3 witness: the sample is smaller than targetCount although a street has
\* candidate rows that were not drawn: one street gave fewer rows than the
\* quota (it has no more), another gave exactly the quota.
C3_Witness ==
  /\ CurrentDone
  /\ Len(response.data) < TargetCount
  /\ \E s, t \in StreetNames :
       /\ Cardinality(StreetQuery(s, args.bounds)) < bays_per_street
       /\ Cardinality(RowsOfStreet(response.data, s))
            = Cardinality(StreetQuery(s, args.bounds))
       /\ Cardinality(StreetQuery(t, args.bounds)) > bays_per_street
       /\ Cardinality(RowsOfStreet(response.data, t)) = bays_per_street

\* C4 (as stated): with no distinct non-null street name in the candidate
\* set, the sample holds min(targetCount, number of candidate rows) rows and
\* total_streets is 0.
C4_DegenerateDraw ==
  (CurrentDone /\ CandidateStreets = {} /\ TargetCount >= 0) =>
    /\ response.distribution_info.total_streets = 0
    /\ Len(response.data) = Min(TargetCount, Cardinality(CandidateRows))

\* C5: once the remaining budget is zero (or less) no further street is
\* visited or queried, and no step of the loop makes the budget negative.
C5_StopAtZero ==
  [][(pc = "current_loop") =>
       /\ remaining_limit <= 0 =>
            /\ street_idx' = street_idx
            /\ results' = results
            /\ remaining_limit' = remaining_limit
       /\ remaining_limit >= 0 => remaining_limit' >= 0]_vars

\* C5 witness: the budget is zero after a draw and a street is left
\* unvisited.
C5_Witness ==
  /\ CurrentDone
  /\ remaining_limit = 0
  /\ Len(results) > 0
  /\ street_idx < Len(street_names)

\* C7: in a successful /current response, total_streets is the number of
\* distinct non-null street names of the candidate set,
\* target_bays_per_street is the quota the loop applied, and
\* actual_bays_returned = count = the number of rows of data.
C7_Metadata ==
  (CurrentDone /\ response.code = 200) =>
    /\ response.success
    /\ response.distribution_info.total_streets = Cardinality(CandidateStreets)
    /\ response.distribution_info.target_bays_per_street = bays_per_street
    /\ response.distribution_info.actual_bays_returned = response.count
    /\ response.count = Len(response.data)

\* C7 witness: a response with rows, two streets counted and only one of
\* them visited.
C7_Witness ==
  /\ CurrentDone
  /\ response.code = 200
  /\ response.count > 0
  /\ response.distribution_info.total_streets = 2
  /\ street_idx = 1

\* C6 (as stated): two /current calls with the same parameters over the
\* same store contents return the same rows.
C6_Deterministic ==
  (CurrentDone /\ previous.args = args) => response = previous.response

NearbyDone == pc = "done" /\ args.endpoint = "nearby"
StreetsDone == pc = "done" /\ args.endpoint = "streets"

\* The bays that have a current status record.
WithStatus == {id \in DOMAIN parking_bays : id \in DOMAIN parking_status_current}

\* C8: a bay with no current status record is in no /nearby or /current
\* result and is counted in no total, available or occupied count of
\* /streets.
C8_NoStatusInvisible ==
  /\ (NearbyDone \/ CurrentDone) =>
       \A i \in 1..Len(response.data) : response.data[i].kerbside_id \in WithStatus
  /\ StreetsDone =>
       \A i \in 1..Len(response.data) :
         LET e == response.data[i]
             counted == {id \in WithStatus :
                           parking_bays[id].road_segment_description = e.street_name}
             free == {id \in counted :
                        parking_status_current[id].status_description = "Unoccupied"}
         IN /\ e.total_bays = Cardinality(counted)
            /\ e.available_bays = Cardinality(free)
            /\ e.occupied_bays = Cardinality(counted \ free)

\* C8 witness: /streets lists a street that has a bay without status.
C8_Witness ==
  /\ StreetsDone
  /\ \E i \in 1..Len(response.data) :
       \E id \in DOMAIN parking_bays \ WithStatus :
         parking_bays[id].road_segment_description = response.data[i].street_name

\* C9: every bay returned by /nearby has status exactly Unoccupied.
C9_OnlyUnoccupied ==
  NearbyDone =>
    \A i \in 1..Len(response.data) :
      /\ response.data[i].kerbside_id \in DOMAIN parking_status_current
      /\ parking_status_current[response.data[i].kerbside_id].status_description
           = "Unoccupied"

\* C9 witness: /nearby returned a bay while a bay of another status lies
\* within the radius, nearer than the bay returned.
C9_Witness ==
  /\ NearbyDone
  /\ Len(response.data) > 0
  /\ \E id \in WithStatus :
       /\ parking_status_current[id].status_description # "Unoccupied"
       /\ BayDistance(args.lat, args.lng, id) <= args.radius * 100
       /\ BayDistance(args.lat, args.lng, id)
            < BayDistance(args.lat, args.lng, response.data[1].kerbside_id)

\* The Unoccupied bays whose exact distance from the center is at most the
\* radius.
WithinReach ==
  {id \in WithStatus :
     /\ parking_status_current[id].status_description = "Unoccupied"
     /\ BayDistance(args.lat, args.lng, id) <= args.radius * 100}

\* C10 (as stated): /nearby returns no bay farther than the radius, and when
\* at most 20 Unoccupied bays lie within the radius it returns exactly
\* those bays.
C10_ExactlyTheBaysInReach ==
  NearbyDone =>
    /\ \A i \in 1..Len(response.data) :
         BayDistance(args.lat, args.lng, response.data[i].kerbside_id)
           <= args.radius * 100
    /\ Cardinality(WithinReach) <= 20 =>
         {response.data[i].kerbside_id : i \in 1..Len(response.data)} = WithinReach

\* C11 (as stated): the /nearby list is in ascending order of distance, and
\* two entries of equal distance are in ascending order of bay id, so the
\* order does not depend on the order in which the store returns its rows.
C11_TiesByBayId ==
  (NearbyDone /\ response.code = 200) =>
    \A i \in 1..(Len(response.data) - 1) :
      \/ response.data[i].distance < response.data[i + 1].distance
      \/ /\ response.data[i].distance = response.data[i + 1].distance
         /\ response.data[i].kerbside_id < response.data[i + 1].kerbside_id

\* C12 (as stated): /nearby returns at most 20 entries, no Unoccupied bay
\* within the radius that is left out of the result is strictly nearer to
\* the center than a bay that is included, and the response echoes the
\* center and the radius of the request.
C12_PrefixOfNearest ==
  (NearbyDone /\ response.code = 200) =>
    LET included == {response.data[i].kerbside_id : i \in 1..Len(response.data)}
    IN /\ Len(response.data) <= 20
       /\ \A out \in WithinReach \ included : \A in \in included :
            BayDistance(args.lat, args.lng, out) >= BayDistance(args.lat, args.lng, in)
       /\ response.search_center = [lat |-> args.lat, lng |-> args.lng]
       /\ response.search_radius = args.radius

\* The /nearby request has no lat or lng, or one that is no number, or a
\* latitude outside [-90, 90], a longitude outside [-180, 180] or a radius
\* that is not positive.
C13_InvalidRequest ==
  LET q == args.query
      numeric(arg, values) == arg # <<>> /\ arg[1] \in DOMAIN values
  IN \/ ~numeric(q.lat, FloatValue)
     \/ ~numeric(q.lng, FloatValue)
     \/ FloatValue[q.lat[1]] < -9000000 \/ FloatValue[q.lat[1]] > 9000000
     \/ FloatValue[q.lng[1]] < -18000000 \/ FloatValue[q.lng[1]] > 18000000
     \/ numeric(q.radius, MetresValue) /\ MetresValue[q.radius[1]] <= 0

\* C13 (as stated): a /nearby request with a missing or non-numeric lat or
\* lng, an out-of-range latitude or longitude, or a non-positive radius is
\* answered with a client input error (a 4xx status with a message), never
\* with a success.
C13_InvalidIsClientError ==
  (NearbyDone /\ C13_InvalidRequest) =>
    /\ response.code \in 400..499
    /\ ~response.success
    /\ "error" \in DOMAIN response

\* The handler ran to its return statement: every query it had to make was
\* answered.
C14_RanToReturn ==
  \/ args.endpoint = "nearby"
  \/ args.endpoint = "streets" /\ Len(results) = Len(streets_data)
                               /\ \A i \in 1..Len(streets_data) :
                                    results[i].street_name = streets_data[i].street_name
  \/ args.endpoint = "current" /\ (street_idx = Len(street_names) \/ remaining_limit <= 0)
                               /\ bays_per_street = BaysPerStreet(limit, Len(street_names))

\* C14: a request of /nearby, /streets or /current during which a query of
\* the store fails ends in a 5xx error response that carries the message of
\* the failure and no data; a response that reports success was built from
\* the answers to all the queries of the handler, never from a part of
\* them.
C14_FailureIs5xx ==
  pc = "done" =>
    \/ /\ response.code = 200
       /\ C14_RanToReturn
       /\ response.data = (IF args.endpoint = "nearby" THEN response.data ELSE results)
    \/ /\ response.code \in 500..599
       /\ ~response.success
       /\ response.error \in StoreErrors
       /\ DOMAIN response = {"code", "success", "error"}

\* C14 witness: the second per-street query of a /current request failed
\* after the first street gave rows, and the response is the error.
C14_Witness ==
  /\ pc = "done"
  /\ args.endpoint = "current"
  /\ street_idx = 1
  /\ Len(results) > 0
  /\ remaining_limit > 0
  /\ response.code = 500
  /\ response.error = "statement timeout"

\* C15: a valid request that matches no bay is answered with status 200
\* and an empty list, not with an error: /nearby when no Unoccupied bay
\* lies within the radius, /streets when no bay with a status row has a
\* street name, /current when the viewport holds no bay with a status row.
C15_EmptyIsSuccess ==
  /\ (NearbyDone /\ WithinReach = {}) =>
       response.code = 200 /\ response.success /\ response.data = <<>>
  /\ (StreetsDone /\ \A id \in WithStatus :
                       parking_bays[id].road_segment_description = NULL) =>
       response.code = 200 /\ response.data = <<>>
  /\ (CurrentDone /\ CandidateRows = {}) =>
       /\ response.code = 200 /\ response.success
       /\ response.data = <<>> /\ response.count = 0

\* C15 witness: /current answered with the empty list for a viewport that
\* holds no bay, over a store that has a bay with a street and a status
\* outside the viewport; the quota was computed with no street.
C15_Witness ==
  /\ CurrentDone
  /\ args.bounds = BoxBounds
  /\ CandidateRows = {}
  /\ \E id \in WithStatus : parking_bays[id].road_segment_description # NULL
  /\ response.code = 200
  /\ response.data = <<>>
  /\ response.distribution_info.total_streets = 0

\* The bounds text of the request does not parse: a part is no number, or
\* there are fewer or more than four parts.
C16_Unparsable ==
  /\ args.bounds # <<>>
  /\ \/ Len(args.bounds) # 4
     \/ \E i \in 1..Len(args.bounds) : args.bounds[i] \notin DOMAIN FloatValue

\* C16: a /current request whose bounds text does not parse is served as
\* the same request without bounds: the street-list query and every
\* per-street query match what they match without a filter, the streets
\* listed are all the streets of the view, every street visited gives
\* min(quota, remaining budget, all its rows) rows, and the response is a
\* success.
C16_UnparsableBoundsIgnored ==
  (args.endpoint = "current" /\ C16_Unparsable) =>
    LET all_streets == {parking_bays[id].road_segment_description :
                          id \in WithStatus} \ {NULL}
        sizes == [i \in 1..Len(street_names) |->
                    Cardinality({id \in WithStatus :
                       parking_bays[id].road_segment_description = street_names[i]})]
        quota == IF all_streets # {}
                 THEN Max(2, TargetCount \div Cardinality(all_streets))
                 ELSE TargetCount
        draws == C3_Draws(sizes, quota, TargetCount)
    IN /\ StreetsQuery(args.bounds) = StreetsQuery(NoBounds)
       /\ \A s \in StreetNames : StreetQuery(s, args.bounds) = StreetQuery(s, NoBounds)
       /\ {street_names[i] : i \in 1..Len(street_names)} = all_streets
       /\ Len(street_names) = Cardinality(all_streets)
       /\ bays_per_street = quota
       /\ \A i \in 1..street_idx :
            Cardinality(RowsOfStreet(results, street_names[i])) = draws[i]
       /\ pc = "done" => /\ response.code = 200
                         /\ response.success
                         /\ response.data = results

\* C16 witness: a response to a request with five bounds parts, four of
\* which are the viewport of BoxBounds, holds a bay outside that viewport.
C16_Witness ==
  /\ CurrentDone
  /\ args.bounds = LongBounds
  /\ response.code = 200
  /\ \E i \in 1..Len(response.data) :
       ~InBounds(BoxBounds, response.data[i].kerbside_id)

\* The rows of the view (bays with a status row) of one street.
ViewRowsOf(street_name) ==
  {id \in WithStatus : parking_bays[id].road_segment_description = street_name}

\* C17: in every entry of a /streets response, occupied_bays +
\* available_bays = total_bays, available_bays is the number of the
\* street's view rows whose status is Unoccupied, and total_bays is the
\* number of the street's view rows.
C17_CountsAddUp ==
  (StreetsDone /\ response.code = 200) =>
    \A i \in 1..Len(response.data) :
      LET e == response.data[i] IN
        /\ e.occupied_bays + e.available_bays = e.total_bays
        /\ e.available_bays =
             Cardinality({id \in ViewRowsOf(e.street_name) :
                parking_status_current[id].status_description = "Unoccupied"})
        /\ e.total_bays = Cardinality(ViewRowsOf(e.street_name))

\* C17 witness: a response with two streets, one of which has both
\* available and occupied bays while the other street has an Unoccupied
\* bay too.
C17_Witness ==
  /\ StreetsDone
  /\ response.code = 200
  /\ Len(response.data) = 2
  /\ response.data[1].available_bays > 0
  /\ response.data[1].occupied_bays > 0
  /\ response.data[2].available_bays > 0

\* The sum of total_bays over the entries of a /streets response.
RECURSIVE SumOfTotalBays(_)
SumOfTotalBays(data) ==
  IF data = <<>> THEN 0 ELSE Head(data).total_bays + SumOfTotalBays(Tail(data))

\* The rows of the view that have a street name.
NamedViewRows ==
  {id \in WithStatus : parking_bays[id].road_segment_description # NULL}

\* C18 (as stated): the sum of total_bays over the streets of a /streets
\* response is the number of view rows with a street name, and no entry
\* has a null street name.
C18_SumIsNamedRows_AsStated ==
  (StreetsDone /\ response.code = 200) =>
    /\ SumOfTotalBays(response.data) = Cardinality(NamedViewRows)
    /\ \A i \in 1..Len(response.data) : response.data[i].street_name # NULL

\* C18 (amended): no entry of a /streets response has a null street name
\* and no street has two entries; the sum of total_bays over the entries
\* is the number of view rows of the streets returned, rows without a
\* street name not among them; it is the number of all the view rows
\* with a street name when the view has at most 50 distinct street names,
\* and with more streets the rows of the streets cut off by the limit of
\* 50 are missing from the sum.
C18_SumIsNamedRows ==
  (StreetsDone /\ response.code = 200) =>
    LET names == {response.data[i].street_name : i \in 1..Len(response.data)}
        streets == {parking_bays[id].road_segment_description : id \in NamedViewRows}
    IN /\ NULL \notin names
       /\ Cardinality(names) = Len(response.data)
       /\ SumOfTotalBays(response.data)
            = Cardinality({id \in NamedViewRows :
                             parking_bays[id].road_segment_description \in names})
       /\ Cardinality(streets) <= 50 =>
            SumOfTotalBays(response.data) = Cardinality(NamedViewRows)
       /\ Cardinality(streets) > 50 =>
            /\ Len(response.data) = 50
            /\ SumOfTotalBays(response.data) < Cardinality(NamedViewRows)

\* C18 witness: a response of 50 streets over a view that has more streets
\* and a row without a street name: the sum is the number of rows of the
\* streets returned, less than the number of rows with a street name.
C18_Witness ==
  /\ StreetsDone
  /\ response.code = 200
  /\ Len(response.data) = 50
  /\ \E id \in WithStatus : parking_bays[id].road_segment_description = NULL
  /\ SumOfTotalBays(response.data) < Cardinality(NamedViewRows)
  /\ SumOfTotalBays(response.data)
       = Cardinality({id \in NamedViewRows :
            \E i \in 1..Len(response.data) :
              parking_bays[id].road_segment_description = response.data[i].street_name})

\* The street names of the model in ascending order, and the place of a
\* name in that order.
NameOrder == <<"A St", "B St">> \o ManyStreetNames
NameRank(street_name) == CHOOSE i \in 1..Len(NameOrder) : NameOrder[i] = street_name

\* C19 (as stated): the entries of a /streets response are in descending
\* order of total_bays, entries of equal total_bays in ascending order of
\* street name, and they are the first 50 of all the streets in that
\* order: a street left out comes after every street returned.
C19_ByTotalThenName ==
  (StreetsDone /\ response.code = 200) =>
    LET data == response.data
        Before(total1, name1, total2, name2) ==
          \/ total1 > total2
          \/ total1 = total2 /\ NameRank(name1) < NameRank(name2)
        names == {data[i].street_name : i \in 1..Len(data)}
        left_out == {parking_bays[id].road_segment_description :
                       id \in NamedViewRows} \ names
    IN /\ \A i \in 1..(Len(data) - 1) :
            Before(data[i].total_bays, data[i].street_name,
                   data[i + 1].total_bays, data[i + 1].street_name)
       /\ left_out # {} => Len(data) = 50
       /\ \A s \in left_out : \A i \in 1..Len(data) :
            Before(data[i].total_bays, data[i].street_name,
                   Cardinality(ViewRowsOf(s)), s)

\* C20: in /streets a bay whose status is anything but Unoccupied
\* (Occupied, Unknown, OutOfService) is counted in occupied_bays and not in
\* available_bays: occupied_bays is the number of the street's view rows
\* with such a status, and available_bays is at most the number of its
\* Unoccupied rows.
C20_NotUnoccupiedIsOccupied ==
  (StreetsDone /\ response.code = 200) =>
    \A i \in 1..Len(response.data) :
      LET e == response.data[i]
          others == {id \in ViewRowsOf(e.street_name) :
                       parking_status_current[id].status_description # "Unoccupied"}
      IN /\ e.occupied_bays = Cardinality(others)
         /\ e.available_bays <= Cardinality(ViewRowsOf(e.street_name) \ others)

\* C20 witness: a street with an Occupied, an Unknown, an OutOfService and
\* an Unoccupied bay is reported with three occupied bays and one
\* available bay.
C20_Witness ==
  /\ StreetsDone
  /\ response.code = 200
  /\ \E i \in 1..Len(response.data) :
       /\ response.data[i].occupied_bays = 3
       /\ response.data[i].available_bays = 1
       /\ \A st \in {"Occupied", "Unknown", "OutOfService", "Unoccupied"} :
            \E id \in ViewRowsOf(response.data[i].street_name) :
              parking_status_current[id].status_description = st

\* C21 (as stated): the bounding box of /nearby has no false negative:
\* every bay position whose haversine distance from the center is at most
\* the radius lies inside [lat - lat_range, lat + lat_range] x
\* [lng - lng_range, lng + lng_range].
C21_BoxHasNoFalseNegative ==
  (NearbyDone /\ response.code = 200) =>
    \A id \in DOMAIN parking_bays :
      BayDistance(args.lat, args.lng, id) <= args.radius * 100 =>
        /\ parking_bays[id].latitude >= args.lat - LatRange(args.radius)
        /\ parking_bays[id].latitude <= args.lat + LatRange(args.radius)
        /\ parking_bays[id].longitude >= args.lng - LngRange(args.lat, args.radius)
        /\ parking_bays[id].longitude <= args.lng + LngRange(args.lat, args.radius)

\* C22 (as stated): a response is computed from one state of the store:
\* no entry of a /streets response has more available bays than bays or a
\* negative number of occupied bays, and every row of a /current response
\* is a row of a street counted in total_streets.
C22_OneViewPerRequest ==
  /\ (StreetsDone /\ response.code = 200) =>
       \A i \in 1..Len(response.data) :
         /\ response.data[i].available_bays <= response.data[i].total_bays
         /\ response.data[i].occupied_bays >= 0
  /\ (CurrentDone /\ response.code = 200) =>
       /\ StreetsOf(response.data) \subseteq
            {street_names[i] : i \in 1..Len(street_names)}
       /\ response.distribution_info.total_streets = Len(street_names)

\* The bays of the candidate set whose latitude or longitude is NULL.
CorruptRows ==
  {id \in Joined : /\ InBounds(args.bounds, id)
                   /\ \/ parking_bays[id].latitude = NullCoordinate
                      \/ parking_bays[id].longitude = NullCoordinate}

\* C23 (as stated): a row whose coordinate cannot be converted is skipped
\* and the other rows are still returned in a successful response: the
\* response to a /current request is a success and holds no such row.
C23_CorruptRowSkipped ==
  CurrentDone =>
    /\ response.code = 200
    /\ \A i \in 1..Len(response.data) : response.data[i].kerbside_id \notin CorruptRows

\* C24: no step of /nearby, /streets or /current changes a row of
\* parking_bays or parking_status_current, and nothing of a request is
\* left when it has been answered: whenever no request is being served,
\* every local of the handlers has its initial value, so the next request
\* starts from the store contents and its own parameters alone.
C24_ReadOnlyStateless ==
  [][/\ parking_bays' = parking_bays
     /\ parking_status_current' = parking_status_current
     /\ pc' = "idle" =>
          /\ args' = NoArgs
          /\ response' = NoResponse
          /\ <<limit', street_names', street_idx', bays_per_street',
               remaining_limit', results', streets_data'>>
               = <<0, <<>>, 0, 0, 0, <<>>, <<>>>>]_vars

\* C24 witness: a /streets request has been answered from two streets and
\* its locals still hold the rows it built.
C24_Witness ==
  /\ StreetsDone
  /\ response.code = 200
  /\ Len(results) = 2
  /\ Len(streets_data) = 2

\* C26: when targetCount >= 2 * S, S > 0 being the number of distinct
\* streets of the candidate set, the budget truncates no street: every
\* street contributes exactly min(quota, its candidate rows) rows, so every
\* street with a candidate row is in the sample.  Only when
\* targetCount < 2 * S can a street with candidate rows receive none, and
\* then the streets after it in the visiting order receive none either.
C26_BudgetNeverTruncates ==
  (CurrentDone /\ response.code = 200) =>
    LET S == Cardinality(CandidateStreets)
        quota == response.distribution_info.target_bays_per_street
        Drawn(s) == Cardinality(RowsOfStreet(response.data, s))
        Rows(s) == Cardinality({id \in CandidateRows :
                                  parking_bays[id].road_segment_description = s})
    IN /\ (S > 0 /\ TargetCount >= 2 * S) =>
            \A s \in CandidateStreets :
              /\ Drawn(s) = Min(quota, Rows(s))
              /\ Drawn(s) >= 1
       /\ \A i \in 1..Len(street_names) :
            (Rows(street_names[i]) > 0 /\ Drawn(street_names[i]) = 0) =>
              /\ TargetCount < 2 * S
              /\ \A j \in i..Len(street_names) : Drawn(street_names[j]) = 0

\* C26 witness: targetCount is positive and below 2 * S, the first street
\* visited took the whole budget and the last street, which has candidate
\* rows, received none.
C26_Witness ==
  /\ CurrentDone
  /\ response.code = 200
  /\ TargetCount > 0
  /\ TargetCount < 2 * Cardinality(CandidateStreets)
  /\ Len(street_names) = 2
  /\ Cardinality(RowsOfStreet(response.data, street_names[1])) = TargetCount
  /\ StreetQuery(street_names[2], args.bounds) # {}
  /\ RowsOfStreet(response.data, street_names[2]) = {}

C28_Rectangle ==
  (CurrentDone /\ response.code = 200 /\ Len(args.bounds) = 4
     /\ \A i \in 1..4 : args.bounds[i] \in DOMAIN FloatValue) =>
    LET lat1 == FloatValue[args.bounds[1]]
        lng1 == FloatValue[args.bounds[2]]
        lat2 == FloatValue[args.bounds[3]]
        lng2 == FloatValue[args.bounds[4]]
        Between(x, a, b) == \/ (a <= x /\ x <= b)
                            \/ (b <= x /\ x <= a)
        Inside(lat, lng) == Between(lat, lat1, lat2) /\ Between(lng, lng1, lng2)
        streets == {parking_bays[id].road_segment_description :
                      id \in {j \in Joined :
                                Inside(parking_bays[j].latitude,
                                       parking_bays[j].longitude)}} \ {NULL}
        exchanged == <<args.bounds[3], args.bounds[4],
                       args.bounds[1], args.bounds[2]>>
    IN /\ \A i \in 1..Len(response.data) :
            Inside(response.data[i].latitude, response.data[i].longitude)
       /\ {street_names[i] : i \in 1..Len(street_names)} = streets
       /\ response.distribution_info.total_streets = Cardinality(streets)
       /\ StreetsQuery(exchanged) = StreetsQuery(args.bounds)
       /\ \A s \in StreetNames :
            StreetQuery(s, exchanged) = StreetQuery(s, args.bounds)

\* C28 witness: the corners are given north-east first; the response holds
\* a row, and a street of the view that has rows only outside the rectangle
\* is not counted.
C28_Witness ==
  /\ CurrentDone
  /\ response.code = 200
  /\ args.bounds = SwappedBounds
  /\ Len(response.data) > 0
  /\ response.distribution_info.total_streets = 1
  /\ Cardinality(StreetsQuery(NoBounds)) = 2

\* The steps of run_full_import in the order of the source.
ImportOrder ==
  <<"import_victoria_population_data", "import_melbourne_population_history",
    "import_parking_bays_data", "import_parking_sensor_data">>

ImportsOf(run) == SelectSeq(run, LAMBDA s : s.step \notin
                     {"get_database_connection", "verify_tables_exist"})

WithoutUpdatedAt(table) ==
  [id \in DOMAIN table |->
     [f \in DOMAIN table[id] \ {"updated_at"} |-> table[id][f]]]

\* The step of run_full_import that commits a bay import, a sensor import.
BaysCommitted ==
  /\ import_pc = "import_parking_bays_data"
  /\ imports_run'[Len(imports_run')].ok

SensorsCommitted ==
  /\ import_pc = "import_parking_sensor_data"
  /\ imports_run'[Len(imports_run')].ok

\* The sensor import run once more, at a later time, on the tables primed.
SensorsAgain ==
  ImportSensorRows(sensors_csv, DOMAIN parking_bays', now' + 1,
                   SensorStart(parking_status_current', parking_status_history'))

LastStatus(records, id) ==
  LET last == CHOOSE i \in 1..Len(records) :
                /\ records[i].KerbsideID = id
                /\ \A j \in (i + 1)..Len(records) : records[j].KerbsideID # id
  IN records[last].Status_Description

\* C25: after any sequence of sensor imports, with repeated ids in the
\* files, parking_status_current holds at most one row per bay id (it is
\* keyed by the id), and for every id with a record in the last import the row
\* carries the status of the last record imported for that id; a record
\* without a status counts as carrying the text the import puts in its
\* place.
C25_LastImportedStatus ==
  \A id \in {imported[i].KerbsideID : i \in 1..Len(imported)} :
    /\ id \in DOMAIN parking_status_current
    /\ \/ parking_status_current[id].status_description = LastStatus(imported, id)
       \/ /\ LastStatus(imported, id) = NULL
          /\ parking_status_current[id].status_description = "Unknown"

====
